---- MODULE Spec2Model ----
(***************************************************************************)
(* Model of the Orchard wallet state of orchard-postfiat:                  *)
(*   wallet_state.rs   OrchardWalletState (viewing keys, note registry,    *)
(*                     nullifier index, spent-set, BridgeTree, staging map)*)
(*   note_manager.rs   NoteManager (CommitmentTree + IncrementalWitness)   *)
(*   bundle_builder.rs the spend builders that read anchor and witnesses   *)
(*                                                                         *)
(* The Merkle hash is modelled as a collision-free combine: the hash of a  *)
(* node is the sequence of the leaf values below it, so two nodes of one   *)
(* level are equal exactly when their subtrees are equal.  The tree depth  *)
(* (32 in the source) is scaled down to DEPTH.                             *)
(*                                                                         *)
(* Option<T> is modelled as a set with at most one element: None is {} and *)
(* Some(x) is {x}.                                                         *)
(***************************************************************************)
EXTENDS Integers, Sequences, FiniteSets, TLC

VARIABLES ivks, notes, commitment_tree, nullifiers, spent_notes,
          last_checkpoint, cmx_to_position,
          nm_notes, nm_tree, nm_spent_notes,
          assigned

\* ivks .. cmx_to_position are the fields of OrchardWalletState, nm_* the
\* fields of NoteManager.  assigned is a history variable: for each successful
\* append_commitment call since the wallet was created or last reset, in call
\* order, the position (an Option) that mark() gave the call.

wvars == <<ivks, notes, commitment_tree, nullifiers, spent_notes,
           last_checkpoint, cmx_to_position>>
nmvars == <<nm_notes, nm_tree, nm_spent_notes>>
vars == <<ivks, notes, commitment_tree, nullifiers, spent_notes,
          last_checkpoint, cmx_to_position,
          nm_notes, nm_tree, nm_spent_notes, assigned>>

----------------------------------------------------------------------------
(* Bounds *)

\* Depth of the commitment tree (32 in the source), scaled down.
DEPTH == 2
\* Checkpoint retention window (100 in the source), scaled down.
MAX_CHECKPOINTS == 2
\* Width in bits of an amount (u64 in the source), scaled down.
AmountBits == 2
\* Largest wallet the model builds, as the sum of the sizes of its collections.
MaxWeight == 5

\* 32-byte commitments: ValidCmx are canonical field encodings, the rest of
\* CmxBytes stands for bytes MerkleHashOrchard::from_bytes rejects.
ValidCmx == {1, 2}
CmxBytes == {1, 2, 3}
\* Revealed nullifiers.
Nullifiers == {1, 2}
\* Incoming viewing keys.
Keys == {1, 2}
\* Transaction hashes.
TxHashes == {1}
\* Ledger sequence numbers given to checkpoint.
LedgerSeqs == {0, 1, 2}
\* Ledger sequence numbers given to the decrypt pass (stored on the notes,
\* read by no operation).
ScanLedgerSeqs == {0}

None == {}
Some(x) == {x}
IsSome(o) == o # {}
Unwrap(o) == CHOOSE x \in o : TRUE

\* Finite maps (BTreeMap / HashMap) are functions over their key set.
EmptyMap == [k \in {} |-> 0]
MapInsert(m, k, v) == [x \in (DOMAIN m) \cup {k} |-> IF x = k THEN v ELSE m[x]]

----------------------------------------------------------------------------
(* Merkle hashing *)

RECURSIVE Pow2(_)
Pow2(n) == IF n = 0 THEN 1 ELSE 2 * Pow2(n - 1)

\* MerkleHashOrchard::empty_leaf()
EmptyLeaf == 0

\* MerkleHashOrchard::from_bytes: None for a non-canonical encoding.
FromBytes(cmx) == IF cmx \in ValidCmx THEN Some(cmx) ELSE None

\* Hashable::combine(level, left, right), collision-free.
Combine(left, right) == left \o right

\* The node of the tree over leaves ls at (level, index); unfilled leaves
\* are the empty leaf, so an unfilled subtree hashes to the empty root of
\* its level.
RECURSIVE Node(_, _, _)
Node(ls, level, index) ==
    IF level = 0
    THEN IF index < Len(ls) THEN <<ls[index + 1]>> ELSE <<EmptyLeaf>>
    ELSE Combine(Node(ls, level - 1, 2 * index),
                 Node(ls, level - 1, 2 * index + 1))

\* Root at level DEPTH of the tree over leaves ls.
RootOf(ls) == Node(ls, DEPTH, 0)

\* Index of the sibling of the ancestor at `level` of leaf `position`.
SiblingIndex(position, level) ==
    LET a == position \div Pow2(level)
    IN IF a % 2 = 0 THEN a + 1 ELSE a - 1

\* Authentication path of `position` in the tree over leaves ls: the
\* siblings from level 0 up to level DEPTH - 1.
AuthPath(ls, position) ==
    [l \in 1..DEPTH |-> Node(ls, l - 1, SiblingIndex(position, l - 1))]

\* MerklePath::root(cmx): fold the leaf with the path, left or right by
\* the bits of the position.
RECURSIVE FoldPath(_, _, _, _)
FoldPath(cur, position, path, l) ==
    IF l > Len(path) THEN cur
    ELSE FoldPath(IF (position \div Pow2(l - 1)) % 2 = 0
                  THEN Combine(cur, path[l])
                  ELSE Combine(path[l], cur),
                  position, path, l + 1)

PathRoot(leaf, position, path) == FoldPath(<<leaf>>, position, path, 1)

----------------------------------------------------------------------------
(* bridgetree::BridgeTree<MerkleHashOrchard, u32, 32>, as the wallet uses it *)

Capacity == Pow2(DEPTH)

\* BridgeTree::new(max_checkpoints)
NewBridgeTree == [leaves |-> <<>>, marked |-> {}, checkpoints |-> <<>>]

\* BridgeTree::append: false when the tree is full.
TreeAppend(t, h) ==
    IF Len(t.leaves) >= Capacity
    THEN [ok |-> FALSE, tree |-> t]
    ELSE [ok |-> TRUE, tree |-> [t EXCEPT !.leaves = Append(@, h)]]

\* BridgeTree::mark: marks the most recently appended leaf and returns its
\* position; None on an empty tree.
TreeMark(t) ==
    IF t.leaves = <<>>
    THEN [pos |-> None, tree |-> t]
    ELSE [pos |-> Some(Len(t.leaves) - 1),
          tree |-> [t EXCEPT !.marked = @ \cup {Len(t.leaves) - 1}]]

\* Number of leaves of the tree state that is checkpoint_depth checkpoints
\* back (0 = current); None when fewer checkpoints are retained.
SizeAt(t, checkpoint_depth) ==
    IF checkpoint_depth = 0 THEN Some(Len(t.leaves))
    ELSE IF checkpoint_depth <= Len(t.checkpoints)
         THEN Some(t.checkpoints[Len(t.checkpoints) - checkpoint_depth + 1].size)
         ELSE None

\* BridgeTree::root(checkpoint_depth)
TreeRoot(t, checkpoint_depth) ==
    LET s == SizeAt(t, checkpoint_depth)
    IN IF IsSome(s) THEN Some(RootOf(SubSeq(t.leaves, 1, Unwrap(s)))) ELSE None

\* BridgeTree::witness giving the path in the current tree at every depth
\* that is retained.
TreeWitness_current(t, position, checkpoint_depth) ==
    LET s == SizeAt(t, checkpoint_depth)
    IN IF position \notin t.marked THEN [ok |-> FALSE, path |-> <<>>]
       ELSE IF ~IsSome(s) THEN [ok |-> FALSE, path |-> <<>>]
       ELSE IF position >= Unwrap(s) THEN [ok |-> FALSE, path |-> <<>>]
       ELSE [ok |-> TRUE, path |-> AuthPath(t.leaves, position)]

\* BridgeTree::witness(position, checkpoint_depth): Err when the position is
\* not marked, was appended after the checkpoint, or the depth is not
\* retained.
TreeWitness(t, position, checkpoint_depth) ==
    LET s == SizeAt(t, checkpoint_depth)
    IN IF position \notin t.marked THEN [ok |-> FALSE, path |-> <<>>]
       ELSE IF ~IsSome(s) THEN [ok |-> FALSE, path |-> <<>>]
       ELSE IF position >= Unwrap(s) THEN [ok |-> FALSE, path |-> <<>>]
       ELSE [ok |-> TRUE,
             path |-> AuthPath(SubSeq(t.leaves, 1, Unwrap(s)), position)]

\* BridgeTree::checkpoint dropping the new checkpoint when the window is full.
TreeCheckpoint_keep_oldest(t, id) ==
    IF t.checkpoints # <<>> /\ id <= t.checkpoints[Len(t.checkpoints)].id
    THEN [ok |-> FALSE, tree |-> t]
    ELSE LET cs == Append(t.checkpoints, [id |-> id, size |-> Len(t.leaves)])
         IN [ok |-> TRUE,
             tree |-> [t EXCEPT !.checkpoints =
                          IF Len(cs) > MAX_CHECKPOINTS
                          THEN SubSeq(cs, 1, MAX_CHECKPOINTS) ELSE cs]]

\* BridgeTree::checkpoint(id): rejected unless id is greater than the id of
\* the latest checkpoint; the oldest checkpoint is dropped once more than
\* max_checkpoints are held.
TreeCheckpoint(t, id) ==
    IF t.checkpoints # <<>> /\ id <= t.checkpoints[Len(t.checkpoints)].id
    THEN [ok |-> FALSE, tree |-> t]
    ELSE LET cs == Append(t.checkpoints, [id |-> id, size |-> Len(t.leaves)])
         IN [ok |-> TRUE,
             tree |-> [t EXCEPT !.checkpoints =
                          IF Len(cs) > MAX_CHECKPOINTS THEN Tail(cs) ELSE cs]]

----------------------------------------------------------------------------
(* External collaborators: bundle actions and trial decryption *)

\* An action of a bundle exposes its commitment and its revealed nullifier.
\* The commitment binds the note, so the note an action decrypts to is a
\* function of its commitment: its value and the key it is addressed to.
Actions == [cmx : ValidCmx, nullifier : Nullifiers]
NoteValue(cmx) == cmx
Recipient(cmx) == cmx

\* Bundles: one action, or two actions.  Nullifiers are interchangeable (no
\* operation reads their value), so the first action of a two-action bundle
\* is taken with nullifier 1.
Bundles ==
    {<<a>> : a \in Actions}
    \cup {<<a, b>> : a \in {x \in Actions : x.nullifier = 1}, b \in Actions}

\* zcash_note_encryption::try_note_decryption(domain, ivk, action)
TryNoteDecryption(ivk, action) ==
    IF ivk = Recipient(action.cmx)
    THEN Some([value |-> NoteValue(action.cmx), recipient |-> ivk])
    ELSE None

\* Anchor::from_bytes(root.to_bytes()): a tree root is a canonical encoding.
AnchorFromBytes(root) == Some(root)

----------------------------------------------------------------------------
(* wallet_state.rs: OrchardWalletState *)

\* A wallet value w is the record of the fields of OrchardWalletState.
W == [ivks |-> ivks, notes |-> notes, commitment_tree |-> commitment_tree,
      nullifiers |-> nullifiers, spent_notes |-> spent_notes,
      last_checkpoint |-> last_checkpoint, cmx_to_position |-> cmx_to_position]

\* OrchardWalletState::new
NewWallet ==
    [ivks |-> <<>>, notes |-> EmptyMap, commitment_tree |-> NewBridgeTree,
     nullifiers |-> EmptyMap, spent_notes |-> {},
     last_checkpoint |-> None, cmx_to_position |-> EmptyMap]

\* Vec::contains / Iterator::position (0-based), None when absent.
IndexOf(s, x) ==
    IF \E i \in 1..Len(s) : s[i] = x
    THEN Some((CHOOSE i \in 1..Len(s) : s[i] = x /\ \A j \in 1..(i - 1) : s[j] # x) - 1)
    ELSE None

\* Vec::retain(|k| k != x)
RECURSIVE Retain(_, _)
Retain(s, x) ==
    IF s = <<>> THEN <<>>
    ELSE IF Head(s) = x THEN Retain(Tail(s), x)
         ELSE <<Head(s)>> \o Retain(Tail(s), x)

\* add_ivk pushing the key without looking for it in the registry.
add_ivk_always_push(w, ivk) == [w EXCEPT !.ivks = Append(@, ivk)]

\* OrchardWalletState::add_ivk
add_ivk(w, ivk) ==
    IF IsSome(IndexOf(w.ivks, ivk)) THEN w
    ELSE [w EXCEPT !.ivks = Append(@, ivk)]

\* OrchardWalletState::remove_ivk
remove_ivk(w, ivk) == [w EXCEPT !.ivks = Retain(@, ivk)]

\* OrchardWalletState::list_ivks
list_ivks(w) == w.ivks

\* append_commitment with mark() called before append(): the position is the
\* one of the leaf appended before.
append_commitment_mark_first(w, cmx) ==
    LET h == FromBytes(cmx)
    IN IF ~IsSome(h)
       THEN [w |-> w, ok |-> FALSE, err |-> "InvalidCommitment", position |-> None]
       ELSE LET m == TreeMark(w.commitment_tree)
                a == TreeAppend(m.tree, Unwrap(h))
            IN IF ~a.ok
               THEN [w |-> w, ok |-> FALSE, err |-> "TreeFull", position |-> None]
               ELSE [w |-> [w EXCEPT
                              !.commitment_tree = a.tree,
                              !.cmx_to_position =
                                  IF IsSome(m.pos)
                                  THEN MapInsert(@, cmx, Unwrap(m.pos))
                                  ELSE @],
                     ok |-> TRUE, err |-> "", position |-> m.pos]

\* OrchardWalletState::append_commitment
append_commitment(w, cmx) ==
    LET h == FromBytes(cmx)
    IN IF ~IsSome(h)
       THEN [w |-> w, ok |-> FALSE, err |-> "InvalidCommitment", position |-> None]
       ELSE LET a == TreeAppend(w.commitment_tree, Unwrap(h))
            IN IF ~a.ok
               THEN [w |-> w, ok |-> FALSE, err |-> "TreeFull", position |-> None]
               ELSE LET m == TreeMark(a.tree)
                    IN [w |-> [w EXCEPT
                                 !.commitment_tree = m.tree,
                                 !.cmx_to_position =
                                     IF IsSome(m.pos)
                                     THEN MapInsert(@, cmx, Unwrap(m.pos))
                                     ELSE @],
                        ok |-> TRUE, err |-> "", position |-> m.pos]

\* add_note falling back to the last appended position when the commitment
\* has no entry in cmx_to_position.
add_note_last_position(w, note, cmx, nullifier, tx_hash, action_idx, ledger_seq, anchor, ivk_index) ==
    LET note_id == <<tx_hash, action_idx>>
        decrypted_note ==
            [note |-> note, cmx |-> cmx, nullifier |-> nullifier,
             amount |-> note.value, ledger_seq |-> ledger_seq,
             tx_hash |-> tx_hash, action_idx |-> action_idx,
             position |-> IF cmx \in DOMAIN w.cmx_to_position
                          THEN w.cmx_to_position[cmx]
                          ELSE Len(w.commitment_tree.leaves) - 1,
             anchor |-> anchor, ivk_index |-> ivk_index]
    IN [w |-> [w EXCEPT
                 !.notes = MapInsert(@, note_id, decrypted_note),
                 !.nullifiers = MapInsert(@, nullifier, note_id)],
        ok |-> TRUE, err |-> ""]

\* add_note taking the inserted identity out of the spent set.
add_note_unspends(w, note, cmx, nullifier, tx_hash, action_idx, ledger_seq, anchor, ivk_index) ==
    IF cmx \notin DOMAIN w.cmx_to_position
    THEN [w |-> w, ok |-> FALSE, err |-> "PositionNotFound"]
    ELSE LET note_id == <<tx_hash, action_idx>>
             decrypted_note ==
                 [note |-> note, cmx |-> cmx, nullifier |-> nullifier,
                  amount |-> note.value, ledger_seq |-> ledger_seq,
                  tx_hash |-> tx_hash, action_idx |-> action_idx,
                  position |-> w.cmx_to_position[cmx],
                  anchor |-> anchor, ivk_index |-> ivk_index]
         IN [w |-> [w EXCEPT
                      !.notes = MapInsert(@, note_id, decrypted_note),
                      !.nullifiers = MapInsert(@, nullifier, note_id),
                      !.spent_notes = @ \ {note_id}],
             ok |-> TRUE, err |-> ""]

\* add_note storing every note of a transaction under action index 0.
add_note_first_action(w, note, cmx, nullifier, tx_hash, action_idx, ledger_seq, anchor, ivk_index) ==
    IF cmx \notin DOMAIN w.cmx_to_position
    THEN [w |-> w, ok |-> FALSE, err |-> "PositionNotFound"]
    ELSE LET note_id == <<tx_hash, 0>>
             decrypted_note ==
                 [note |-> note, cmx |-> cmx, nullifier |-> nullifier,
                  amount |-> note.value, ledger_seq |-> ledger_seq,
                  tx_hash |-> tx_hash, action_idx |-> action_idx,
                  position |-> w.cmx_to_position[cmx],
                  anchor |-> anchor, ivk_index |-> ivk_index]
         IN [w |-> [w EXCEPT
                      !.notes = MapInsert(@, note_id, decrypted_note),
                      !.nullifiers = MapInsert(@, nullifier, note_id)],
             ok |-> TRUE, err |-> ""]

\* OrchardWalletState::add_note
add_note(w, note, cmx, nullifier, tx_hash, action_idx, ledger_seq, anchor, ivk_index) ==
    IF cmx \notin DOMAIN w.cmx_to_position
    THEN [w |-> w, ok |-> FALSE, err |-> "PositionNotFound"]
    ELSE LET note_id == <<tx_hash, action_idx>>
             decrypted_note ==
                 [note |-> note, cmx |-> cmx, nullifier |-> nullifier,
                  amount |-> note.value, ledger_seq |-> ledger_seq,
                  tx_hash |-> tx_hash, action_idx |-> action_idx,
                  position |-> w.cmx_to_position[cmx],
                  anchor |-> anchor, ivk_index |-> ivk_index]
         IN [w |-> [w EXCEPT
                      !.notes = MapInsert(@, note_id, decrypted_note),
                      !.nullifiers = MapInsert(@, nullifier, note_id)],
             ok |-> TRUE, err |-> ""]

\* The inner loop of try_decrypt_notes_from_bundle: the 0-based index of the
\* first registered key, from index i on, that decrypts the action.
RECURSIVE FirstDecryptingIvk(_, _, _)
FirstDecryptingIvk(keys, action, i) ==
    IF i > Len(keys) THEN None
    ELSE IF IsSome(TryNoteDecryption(keys[i], action)) THEN Some(i - 1)
         ELSE FirstDecryptingIvk(keys, action, i + 1)

\* The outer loop of try_decrypt_notes_from_bundle from action i on (1-based
\* in the model, action_idx = i - 1), with decrypted_count notes added so far.
RECURSIVE DecryptFrom(_, _, _, _, _, _)
DecryptFrom(w, bundle, tx_hash, ledger_seq, i, decrypted_count) ==
    IF i > Len(bundle)
    THEN [w |-> [w EXCEPT !.cmx_to_position = EmptyMap],
          ok |-> TRUE, err |-> "", count |-> decrypted_count]
    ELSE LET action == bundle[i]
             k == FirstDecryptingIvk(w.ivks, action, 1)
         IN IF ~IsSome(k)
            THEN DecryptFrom(w, bundle, tx_hash, ledger_seq, i + 1, decrypted_count)
            ELSE LET root == TreeRoot(w.commitment_tree, 0)
                     anchor == IF IsSome(root) THEN AnchorFromBytes(Unwrap(root)) ELSE None
                     note == Unwrap(TryNoteDecryption(w.ivks[Unwrap(k) + 1], action))
                 IN IF ~IsSome(root)
                    THEN [w |-> w, ok |-> FALSE, err |-> "NoTreeRoot", count |-> decrypted_count]
                    ELSE IF ~IsSome(anchor)
                    THEN [w |-> w, ok |-> FALSE, err |-> "BadAnchor", count |-> decrypted_count]
                    ELSE LET r == add_note(w, note, action.cmx, action.nullifier,
                                           tx_hash, i - 1, ledger_seq,
                                           Unwrap(anchor), Unwrap(k))
                         IN IF ~r.ok
                            THEN [w |-> r.w, ok |-> FALSE, err |-> r.err,
                                  count |-> decrypted_count]
                            ELSE DecryptFrom(r.w, bundle, tx_hash, ledger_seq,
                                             i + 1, decrypted_count + 1)

\* try_decrypt_notes_from_bundle undoing the notes of a pass that fails.
try_decrypt_notes_from_bundle_rollback(w, bundle, tx_hash, ledger_seq) ==
    LET r == DecryptFrom(w, bundle, tx_hash, ledger_seq, 1, 0)
    IN IF r.ok THEN r ELSE [r EXCEPT !.w = w]

\* try_decrypt_notes_from_bundle storing the first registry index as the owner
\* of every note of the bundle.
try_decrypt_notes_from_bundle_first_index(w, bundle, tx_hash, ledger_seq) ==
    LET r == DecryptFrom(w, bundle, tx_hash, ledger_seq, 1, 0)
        stored == {<<tx_hash, i - 1>> : i \in 1..Len(bundle)}
    IN [r EXCEPT !.w.notes =
            [id \in DOMAIN @ |->
                IF id \in stored THEN [@[id] EXCEPT !.ivk_index = 0] ELSE @[id]]]

\* OrchardWalletState::try_decrypt_notes_from_bundle
try_decrypt_notes_from_bundle(w, bundle, tx_hash, ledger_seq) ==
    DecryptFrom(w, bundle, tx_hash, ledger_seq, 1, 0)

\* mark_spent un-spending a note that is already spent.
mark_spent_toggle(w, nullifier) ==
    IF nullifier \in DOMAIN w.nullifiers
    THEN IF w.nullifiers[nullifier] \in w.spent_notes
         THEN [w EXCEPT !.spent_notes = @ \ {w.nullifiers[nullifier]}]
         ELSE [w EXCEPT !.spent_notes = @ \cup {w.nullifiers[nullifier]}]
    ELSE w

\* mark_spent spending every note of the registry on an unknown nullifier.
mark_spent_unknown_marks_all(w, nullifier) ==
    IF nullifier \in DOMAIN w.nullifiers
    THEN [w EXCEPT !.spent_notes = @ \cup {w.nullifiers[nullifier]}]
    ELSE [w EXCEPT !.spent_notes = @ \cup DOMAIN w.notes]

\* mark_spent dropping the nullifier from the index once its note is spent.
mark_spent_drops_nullifier(w, nullifier) ==
    IF nullifier \in DOMAIN w.nullifiers
    THEN [w EXCEPT !.spent_notes = @ \cup {w.nullifiers[nullifier]},
                   !.nullifiers = [n \in DOMAIN w.nullifiers \ {nullifier}
                                     |-> w.nullifiers[n]]]
    ELSE w

\* OrchardWalletState::mark_spent
mark_spent(w, nullifier) ==
    IF nullifier \in DOMAIN w.nullifiers
    THEN [w EXCEPT !.spent_notes = @ \cup {w.nullifiers[nullifier]}]
    ELSE w

\* OrchardWalletState::checkpoint
checkpoint(w, ledger_seq) ==
    LET c == TreeCheckpoint(w.commitment_tree, ledger_seq)
    IN IF c.ok
       THEN [w |-> [w EXCEPT !.commitment_tree = c.tree,
                             !.last_checkpoint = Some(ledger_seq)],
             ok |-> TRUE]
       ELSE [w |-> w, ok |-> FALSE]

\* ffi/bridge.rs orchard_wallet_state_checkpoint: calls checkpoint, drops the
\* bool it returns and returns (), which the caller reads as success.
orchard_wallet_state_checkpoint(w, ledger_seq) ==
    [w |-> checkpoint(w, ledger_seq).w, ok |-> TRUE]

\* ffi/bridge.rs orchard_wallet_state_append_commitment: the Result of
\* append_commitment with its error wrapped.
orchard_wallet_state_append_commitment(w, cmx) ==
    LET r == append_commitment(w, cmx)
    IN [w |-> r.w, ok |-> r.ok]

\* ffi/bridge.rs orchard_wallet_state_last_checkpoint: the u32 handed to the
\* caller is last_checkpoint().unwrap_or(0).
orchard_wallet_state_last_checkpoint(w) ==
    IF IsSome(w.last_checkpoint) THEN Unwrap(w.last_checkpoint) ELSE 0

\* reset leaving the spent set and the nullifier index as they are.
reset_keeps_spent(w) ==
    [w EXCEPT !.notes = EmptyMap,
              !.commitment_tree = NewBridgeTree,
              !.last_checkpoint = None,
              !.cmx_to_position = EmptyMap]

\* reset leaving the note registry as it is.
reset_keeps_notes(w) ==
    [w EXCEPT !.commitment_tree = NewBridgeTree,
              !.nullifiers = EmptyMap,
              !.spent_notes = {},
              !.last_checkpoint = None,
              !.cmx_to_position = EmptyMap]

\* OrchardWalletState::reset
reset(w) ==
    [w EXCEPT !.notes = EmptyMap,
              !.commitment_tree = NewBridgeTree,
              !.nullifiers = EmptyMap,
              !.spent_notes = {},
              !.last_checkpoint = None,
              !.cmx_to_position = EmptyMap]

\* get_anchor reading the root of the last checkpoint (depth 1).
get_anchor_depth1(w) ==
    LET root == TreeRoot(w.commitment_tree, 1)
    IN IF IsSome(root) THEN AnchorFromBytes(Unwrap(root)) ELSE None

\* get_anchor returning the root as of the latest checkpoint when there is one.
get_anchor_at_checkpoint(w) ==
    LET root == TreeRoot(w.commitment_tree,
                         IF w.commitment_tree.checkpoints # <<>> THEN 1 ELSE 0)
    IN IF IsSome(root) THEN AnchorFromBytes(Unwrap(root)) ELSE None

\* OrchardWalletState::get_anchor
get_anchor(w) ==
    LET root == TreeRoot(w.commitment_tree, 0)
    IN IF IsSome(root) THEN AnchorFromBytes(Unwrap(root)) ELSE None

\* get_merkle_path taking the witness at the last checkpoint (depth 1).
get_merkle_path_depth1(w, note) ==
    LET wit == TreeWitness(w.commitment_tree, note.position, 1)
    IN IF ~wit.ok THEN [ok |-> FALSE, position |-> note.position, auth_path |-> <<>>]
       ELSE IF ~IsSome(TreeRoot(w.commitment_tree, 0))
       THEN [ok |-> FALSE, position |-> note.position, auth_path |-> <<>>]
       ELSE [ok |-> TRUE, position |-> note.position,
             auth_path |-> [l \in 1..DEPTH |->
                              IF l <= Len(wit.path) THEN wit.path[l] ELSE <<EmptyLeaf>>]]

\* OrchardWalletState::get_merkle_path: the witness at checkpoint depth 0,
\* paired with the note's position.
get_merkle_path(w, note) ==
    LET wit == TreeWitness(w.commitment_tree, note.position, 0)
    IN IF ~wit.ok THEN [ok |-> FALSE, position |-> note.position, auth_path |-> <<>>]
       ELSE IF ~IsSome(TreeRoot(w.commitment_tree, 0))
       THEN [ok |-> FALSE, position |-> note.position, auth_path |-> <<>>]
       ELSE [ok |-> TRUE, position |-> note.position,
             auth_path |-> [l \in 1..DEPTH |->
                              IF l <= Len(wit.path) THEN wit.path[l] ELSE <<EmptyLeaf>>]]

\* OrchardWalletState::get_note_anchor
get_note_anchor(w, note) ==
    LET root == TreeRoot(w.commitment_tree, 0)
    IN IF IsSome(root) THEN AnchorFromBytes(Unwrap(root)) ELSE None

\* Order of the keys of the notes BTreeMap: NoteId = (tx_hash, action_idx),
\* compared lexicographically.
NoteIdLess(a, b) == a[1] < b[1] \/ (a[1] = b[1] /\ a[2] < b[2])

\* The keys of a notes map in BTreeMap iteration order.
RECURSIVE IterOrder(_)
IterOrder(ids) ==
    IF ids = {} THEN <<>>
    ELSE LET m == CHOOSE x \in ids : \A y \in ids \ {x} : NoteIdLess(x, y)
         IN <<m>> \o IterOrder(ids \ {m})

\* One step of a stable sort by amount: note x goes behind every note of the
\* sorted sequence whose amount is not larger.
RECURSIVE InsertByAmount(_, _)
InsertByAmount(sorted, x) ==
    IF sorted = <<>> THEN <<x>>
    ELSE IF Head(sorted).amount <= x.amount
         THEN <<Head(sorted)>> \o InsertByAmount(Tail(sorted), x)
         ELSE <<x>> \o sorted

\* Vec::sort_by_key(|note| note.amount): a stable sort.
RECURSIVE SortByAmount(_)
SortByAmount(s) ==
    IF s = <<>> THEN <<>>
    ELSE InsertByAmount(SortByAmount(SubSeq(s, 1, Len(s) - 1)), s[Len(s)])

\* get_spendable_notes collecting the notes in descending key order before the
\* sort.
get_spendable_notes_descending(w) ==
    LET order == IterOrder(DOMAIN w.notes \ w.spent_notes)
    IN SortByAmount([i \in 1..Len(order) |-> w.notes[order[Len(order) + 1 - i]]])

\* OrchardWalletState::get_spendable_notes
get_spendable_notes(w) ==
    LET order == IterOrder(DOMAIN w.notes \ w.spent_notes)
    IN SortByAmount([i \in 1..Len(order) |-> w.notes[order[i]]])

\* u64::checked_add and u64::checked_sub on amounts of AmountBits bits.
AmountMax == Pow2(AmountBits) - 1
CheckedAdd(a, b) == IF a + b > AmountMax THEN None ELSE Some(a + b)
CheckedSub(a, b) == IF a < b THEN None ELSE Some(a - b)

\* Vec::retain on a sequence of notes: keep the notes of one ivk_index.
RECURSIVE RetainIvkIndex(_, _)
RetainIvkIndex(s, ivk_index) ==
    IF s = <<>> THEN <<>>
    ELSE IF Head(s).ivk_index = ivk_index
         THEN <<Head(s)>> \o RetainIvkIndex(Tail(s), ivk_index)
         ELSE RetainIvkIndex(Tail(s), ivk_index)

\* The greedy loop of select_notes from candidate i on.
RECURSIVE SelectFrom(_, _, _, _, _)
SelectFrom(spendable, target_amount, i, selected, total) ==
    IF i > Len(spendable)
    THEN [ok |-> FALSE, err |-> "InsufficientBalance", selected |-> <<>>]
    ELSE LET sum == CheckedAdd(total, spendable[i].amount)
         IN IF ~IsSome(sum)
            THEN [ok |-> FALSE, err |-> "AmountOverflow", selected |-> <<>>]
            ELSE IF Unwrap(sum) >= target_amount
            THEN [ok |-> TRUE, err |-> "", selected |-> Append(selected, spendable[i])]
            ELSE SelectFrom(spendable, target_amount, i + 1,
                            Append(selected, spendable[i]), Unwrap(sum))

\* OrchardWalletState::select_notes; fvk is an Option of the key to filter by.
select_notes(w, target_amount, fvk) ==
    LET spendable == get_spendable_notes(w)
    IN IF IsSome(fvk)
       THEN LET ivk_index == IndexOf(w.ivks, Unwrap(fvk))
            IN IF ~IsSome(ivk_index)
               THEN [ok |-> FALSE, err |-> "FvkNotFound", selected |-> <<>>]
               ELSE SelectFrom(RetainIvkIndex(spendable, Unwrap(ivk_index)),
                               target_amount, 1, <<>>, 0)
       ELSE SelectFrom(spendable, target_amount, 1, <<>>, 0)

\* The sum of the amounts of a sequence of notes with checked_add.
RECURSIVE TotalInput(_, _, _)
TotalInput(s, i, total) ==
    IF i > Len(s) THEN Some(total)
    ELSE LET sum == CheckedAdd(total, s[i].amount)
         IN IF IsSome(sum) THEN TotalInput(s, i + 1, Unwrap(sum)) ELSE None

\* The spend loop of build_shielded_to_shielded_from_wallet from note i on:
\* each spend handed to the builder is the note with its Merkle path.
RECURSIVE AddSpends(_, _, _, _)
AddSpends(w, selected_notes, i, spends) ==
    IF i > Len(selected_notes) THEN [ok |-> TRUE, spends |-> spends]
    ELSE LET merkle_path == get_merkle_path(w, selected_notes[i])
         IN IF ~merkle_path.ok THEN [ok |-> FALSE, spends |-> spends]
            ELSE AddSpends(w, selected_notes, i + 1,
                           Append(spends, [note |-> selected_notes[i],
                                           merkle_path |-> merkle_path]))

\* bundle_builder.rs: build_shielded_to_shielded_from_wallet, up to the spends
\* and the anchor it gives the bundle builder.
build_shielded_to_shielded_from_wallet(w, send_amount) ==
    LET anchor == get_anchor(w)
        sel == select_notes(w, send_amount, None)
        total_input == TotalInput(sel.selected, 1, 0)
        failed(e) == [ok |-> FALSE, err |-> e, anchor |-> None, spends |-> <<>>]
    IN IF ~IsSome(anchor) THEN failed("NoAnchor")
       ELSE IF ~sel.ok THEN failed(sel.err)
       ELSE IF ~IsSome(total_input) THEN failed("AmountOverflow")
       ELSE IF ~IsSome(CheckedSub(Unwrap(total_input), send_amount))
       THEN failed("InsufficientBalance")
       ELSE LET s == AddSpends(w, sel.selected, 1, <<>>)
            IN IF ~s.ok THEN failed("NoMerklePath")
               ELSE [ok |-> TRUE, err |-> "", anchor |-> anchor, spends |-> s.spends]

\* The exact sum of the amounts of a sequence of notes.
RECURSIVE SumAmounts(_)
SumAmounts(s) ==
    IF s = <<>> THEN 0 ELSE Head(s).amount + SumAmounts(Tail(s))

\* Iterator::sum over u64 amounts: the set of its possible outcomes.  A sum
\* within the u64 range is returned; beyond it the `+` of u64 panics in a build
\* with overflow checks and wraps in a build without them.
SumU64(s) ==
    LET total == SumAmounts(s)
    IN IF total <= AmountMax
       THEN {[panic |-> FALSE, value |-> total]}
       ELSE {[panic |-> TRUE, value |-> 0],
             [panic |-> FALSE, value |-> total % Pow2(AmountBits)]}

\* list_notes listing the spent notes whatever the flag.
list_notes_ignoring_flag(w, include_spent) ==
    LET order == IterOrder(DOMAIN w.notes)
    IN [i \in 1..Len(order) |-> w.notes[order[i]]]

\* OrchardWalletState::list_notes
list_notes(w, include_spent) ==
    LET order == IterOrder(IF include_spent THEN DOMAIN w.notes
                           ELSE DOMAIN w.notes \ w.spent_notes)
    IN [i \in 1..Len(order) |-> w.notes[order[i]]]

\* OrchardWalletState::get_balance: the set of its possible outcomes.
get_balance(w) == SumU64(list_notes(w, FALSE))

----------------------------------------------------------------------------
(* note_manager.rs: NoteManager.  Its tree is a CommitmentTree, modelled by
   the sequence of its leaves; an IncrementalWitness is modelled by the tree
   it was made from, whose last leaf it witnesses. *)

\* The NoteManager as one value.
NM == [notes |-> nm_notes, tree |-> nm_tree, spent_notes |-> nm_spent_notes]

\* NoteManager::new
NewNoteManager == [notes |-> EmptyMap, tree |-> <<>>, spent_notes |-> {}]

\* IncrementalWitness::from_tree: the set of its possible results.  The witness
\* is for the most recent leaf of the tree it is given.  The crate is not among
\* the sources: for the empty tree, which has no leaf to witness, both None and
\* a witness of the empty tree are possible results.
FromTree(tree) ==
    IF tree = <<>> THEN {None, Some(<<>>)} ELSE {Some(tree)}

\* IncrementalWitness::path: None for a witness of the empty tree, else the
\* authentication path of the witnessed leaf in the witness's tree.
WitnessPath(witness) ==
    IF witness = <<>> THEN None
    ELSE Some(AuthPath(witness, Len(witness) - 1))

\* CommitmentTree::append
CommitmentTreeAppend(tree, h) ==
    IF Len(tree) >= Capacity THEN [ok |-> FALSE, tree |-> tree]
    ELSE [ok |-> TRUE, tree |-> Append(tree, h)]

\* NoteManager::add_note, given the result of IncrementalWitness::from_tree.
AddNoteWith(nm, from_tree, note, cmx, nullifier, ledger_seq, tx_hash) ==
    LET cmx_hash == FromBytes(cmx)
    IN IF ~IsSome(cmx_hash) THEN [nm |-> nm, ok |-> FALSE, err |-> "InvalidCommitment"]
       ELSE IF ~IsSome(from_tree) THEN [nm |-> nm, ok |-> FALSE, err |-> "NoWitness"]
       ELSE LET a == CommitmentTreeAppend(nm.tree, Unwrap(cmx_hash))
            IN IF ~a.ok THEN [nm |-> nm, ok |-> FALSE, err |-> "TreeFull"]
               ELSE LET spendable ==
                            [note |-> note, position |-> Len(a.tree) - 1,
                             witness |-> Unwrap(from_tree), cmx |-> cmx,
                             nullifier |-> nullifier, amount |-> note.value,
                             ledger_seq |-> ledger_seq, tx_hash |-> tx_hash]
                    IN [nm |-> [nm EXCEPT !.tree = a.tree,
                                          !.notes = MapInsert(@, cmx, spendable)],
                        ok |-> TRUE, err |-> ""]

\* NoteManager::add_note: the set of its possible results.
NoteManager_add_note(nm, note, cmx, nullifier, ledger_seq, tx_hash) ==
    {AddNoteWith(nm, from_tree, note, cmx, nullifier, ledger_seq, tx_hash) :
        from_tree \in FromTree(nm.tree)}

\* NoteManager::mark_spent: the set of its possible results, one for each note
\* the search over the HashMap can find first.
NoteManager_mark_spent(nm, nullifier) ==
    LET found == {cmx \in DOMAIN nm.notes : nm.notes[cmx].nullifier = nullifier}
    IN IF found = {} THEN {nm}
       ELSE {[nm EXCEPT !.spent_notes = @ \cup {cmx},
                        !.notes = [c \in DOMAIN nm.notes \ {cmx} |-> nm.notes[c]]] :
                cmx \in found}

\* NoteManager::get_anchor
NoteManager_get_anchor(nm) == AnchorFromBytes(RootOf(nm.tree))

\* NoteManager::get_witness_path
NoteManager_get_witness_path(nm, cmx) ==
    IF cmx \notin DOMAIN nm.notes
    THEN [ok |-> FALSE, err |-> "NoteNotFound", position |-> 0, auth_path |-> <<>>]
    ELSE LET note == nm.notes[cmx]
             inc_merkle_path == WitnessPath(note.witness)
         IN IF ~IsSome(inc_merkle_path)
            THEN [ok |-> FALSE, err |-> "NoAuthPath", position |-> 0, auth_path |-> <<>>]
            ELSE [ok |-> TRUE, err |-> "", position |-> note.position,
                  auth_path |-> [l \in 1..DEPTH |->
                                   IF l <= Len(Unwrap(inc_merkle_path))
                                   THEN Unwrap(inc_merkle_path)[l]
                                   ELSE <<EmptyLeaf>>]]

\* The orders in which a HashMap can iterate over its keys: every order, as
\* the hasher of each HashMap instance is seeded at random.
RECURSIVE HashMapOrders(_)
HashMapOrders(keys) ==
    IF keys = {} THEN {<<>>}
    ELSE UNION {{<<k>> \o rest : rest \in HashMapOrders(keys \ {k})} : k \in keys}

\* NoteManager::select_notes for one iteration order of self.notes.
SelectNotesIn(nm, amount_needed, order) ==
    LET unspent == SelectSeq(order, LAMBDA cmx : cmx \notin nm.spent_notes)
        available == SortByAmount([i \in 1..Len(unspent) |-> nm.notes[unspent[i]]])
        r == SelectFrom(available, amount_needed, 1, <<>>, 0)
    IN [ok |-> r.ok, err |-> r.err,
        selected |-> [i \in 1..Len(r.selected) |-> r.selected[i].cmx]]

\* NoteManager::select_notes: the set of its possible results.
NoteManager_select_notes(nm, amount_needed) ==
    {SelectNotesIn(nm, amount_needed, order) : order \in HashMapOrders(DOMAIN nm.notes)}

\* NoteManager::get_balance: the set of its possible outcomes (the sum does
\* not depend on the iteration order of the HashMap).
NoteManager_get_balance(nm) ==
    LET order == CHOOSE o \in HashMapOrders(DOMAIN nm.notes) : TRUE
        unspent == SelectSeq(order, LAMBDA cmx : cmx \notin nm.spent_notes)
    IN SumU64([i \in 1..Len(unspent) |-> nm.notes[unspent[i]]])

\* NoteManager::note_count: notes.len() - spent_notes.len() in usize (as wide
\* as u64 on the 64-bit targets, scaled like the amounts).  The set of its
\* possible outcomes: below zero the `-` panics in a build with overflow
\* checks and wraps in a build without them.
NoteManager_note_count(nm) ==
    LET d == Cardinality(DOMAIN nm.notes) - Cardinality(nm.spent_notes)
    IN IF d >= 0 THEN {[panic |-> FALSE, value |-> d]}
       ELSE {[panic |-> TRUE, value |-> 0],
             [panic |-> FALSE, value |-> d % Pow2(AmountBits)]}

----------------------------------------------------------------------------
(* The wallet as a state machine: one action per exposed operation *)

\* The size of a wallet value: what it holds, summed over its collections.
Weight(w) ==
    Len(w.ivks) + Len(w.commitment_tree.leaves) + Len(w.commitment_tree.checkpoints)
    + Cardinality(DOMAIN w.notes) + Cardinality(w.spent_notes)

SetWallet(w) ==
    /\ Weight(w) <= MaxWeight
    /\ ivks' = w.ivks
    /\ notes' = w.notes
    /\ commitment_tree' = w.commitment_tree
    /\ nullifiers' = w.nullifiers
    /\ spent_notes' = w.spent_notes
    /\ last_checkpoint' = w.last_checkpoint
    /\ cmx_to_position' = w.cmx_to_position

Init ==
    /\ ivks = NewWallet.ivks
    /\ notes = NewWallet.notes
    /\ commitment_tree = NewWallet.commitment_tree
    /\ nullifiers = NewWallet.nullifiers
    /\ spent_notes = NewWallet.spent_notes
    /\ last_checkpoint = NewWallet.last_checkpoint
    /\ cmx_to_position = NewWallet.cmx_to_position
    /\ nm_notes = NewNoteManager.notes
    /\ nm_tree = NewNoteManager.tree
    /\ nm_spent_notes = NewNoteManager.spent_notes
    /\ assigned = <<>>


\* orchard_wallet_state_add_ivk
AddIvk ==
    \E ivk \in Keys :
        /\ SetWallet(add_ivk(W, ivk))
        /\ UNCHANGED <<nmvars, assigned>>

\* orchard_wallet_state_remove_ivk
RemoveIvk ==
    \E ivk \in Keys :
        /\ SetWallet(remove_ivk(W, ivk))
        /\ UNCHANGED <<nmvars, assigned>>

\* orchard_wallet_state_append_commitment
AppendCommitment ==
    \E cmx \in CmxBytes :
        /\ LET r == append_commitment(W, cmx)
           IN /\ SetWallet(r.w)
              /\ assigned' = IF r.ok THEN Append(assigned, r.position) ELSE assigned
        /\ UNCHANGED nmvars

\* orchard_wallet_state_try_decrypt_notes
TryDecryptNotes ==
    \E bundle \in Bundles, tx_hash \in TxHashes, ledger_seq \in ScanLedgerSeqs :
        /\ SetWallet(try_decrypt_notes_from_bundle(W, bundle, tx_hash, ledger_seq).w)
        /\ UNCHANGED <<nmvars, assigned>>

\* orchard_wallet_state_mark_spent
MarkSpent ==
    \E nullifier \in Nullifiers :
        /\ SetWallet(mark_spent(W, nullifier))
        /\ UNCHANGED <<nmvars, assigned>>

\* orchard_wallet_state_checkpoint
Checkpoint ==
    \E ledger_seq \in LedgerSeqs :
        /\ SetWallet(checkpoint(W, ledger_seq).w)
        /\ UNCHANGED <<nmvars, assigned>>

\* orchard_wallet_state_reset
Reset ==
    /\ SetWallet(reset(W))
    /\ assigned' = <<>>
    /\ UNCHANGED nmvars

Next ==
    \/ AddIvk
    \/ RemoveIvk
    \/ AppendCommitment
    \/ TryDecryptNotes
    \/ MarkSpent
    \/ Checkpoint
    \/ Reset

Spec == Init /\ [][Next]_vars

----------------------------------------------------------------------------
(* Serialized ingestion: the caller appends every commitment of a bundle, in
   action order, and then runs the decrypt pass of that bundle, before it
   turns to the next bundle. *)

\* The append pass over the actions of a bundle from action i on; it stops at
\* the first append that fails.
RECURSIVE AppendAll(_, _, _, _)
AppendAll(w, bundle, i, positions) ==
    IF i > Len(bundle) THEN [w |-> w, ok |-> TRUE, positions |-> positions]
    ELSE LET r == append_commitment(w, bundle[i].cmx)
         IN IF ~r.ok THEN [w |-> r.w, ok |-> FALSE, positions |-> positions]
            ELSE AppendAll(r.w, bundle, i + 1, Append(positions, r.position))

\* One bundle ingested: the append pass, then (if no append failed) the decrypt
\* pass of the same bundle.
IngestBundle ==
    \E bundle \in Bundles, tx_hash \in TxHashes, ledger_seq \in ScanLedgerSeqs :
        /\ LET a == AppendAll(W, bundle, 1, <<>>)
           IN /\ SetWallet(IF a.ok
                           THEN try_decrypt_notes_from_bundle(a.w, bundle, tx_hash,
                                                              ledger_seq).w
                           ELSE a.w)
              /\ assigned' = assigned \o a.positions
        /\ UNCHANGED nmvars

NextIngest ==
    \/ AddIvk
    \/ RemoveIvk
    \/ IngestBundle
    \/ MarkSpent
    \/ Checkpoint
    \/ Reset

SpecIngest == Init /\ [][NextIngest]_vars

----------------------------------------------------------------------------
(* The NoteManager as a state machine *)

NMWeight(nm) ==
    Len(nm.tree) + Cardinality(DOMAIN nm.notes) + Cardinality(nm.spent_notes)

SetNoteManager(nm) ==
    /\ NMWeight(nm) <= MaxWeight
    /\ nm_notes' = nm.notes
    /\ nm_tree' = nm.tree
    /\ nm_spent_notes' = nm.spent_notes

\* Values of the notes given to NoteManager::add_note.
NoteValues == {1, 2}

\* NoteManager::add_note, as orchard_note_manager_decrypt_and_add_note calls it
NMAddNote ==
    \E cmx \in CmxBytes, value \in NoteValues, nullifier \in Nullifiers,
       tx_hash \in TxHashes, ledger_seq \in ScanLedgerSeqs :
        \E r \in NoteManager_add_note(NM, [value |-> value,
                                           recipient |-> Recipient(cmx)],
                                      cmx, nullifier, ledger_seq, tx_hash) :
            /\ SetNoteManager(r.nm)
            /\ UNCHANGED <<wvars, assigned>>

\* NoteManager::mark_spent
NMMarkSpent ==
    \E nullifier \in Nullifiers :
        \E nm \in NoteManager_mark_spent(NM, nullifier) :
            /\ SetNoteManager(nm)
            /\ UNCHANGED <<wvars, assigned>>

NextNM ==
    \/ NMAddNote
    \/ NMMarkSpent

SpecNM == Init /\ [][NextNM]_vars

----------------------------------------------------------------------------
(* Properties *)

\* Amounts asked of the spend builder.
SendAmounts == {0, 1, 2, 3}

\* C1: the i-th successful append_commitment call since the wallet was created
\* or last reset is given position i (counting from 0): positions are dense,
\* strictly increasing, never reused and never skipped, whatever other
\* operations ran in between.
C1_PositionsDense ==
    \A i \in 1..Len(assigned) : assigned[i] = Some(i - 1)

\* Three commitments appended, with a key registration and a decrypt pass that
\* stored a note in between.
C1_Witness ==
    /\ Len(assigned) >= 3
    /\ DOMAIN notes # {}
    /\ cmx_to_position # EmptyMap

C3_WitnessRoundTrip ==
    LET root == TreeRoot(commitment_tree, 0)
    IN \A position \in 0..(Len(commitment_tree.leaves) - 1) :
           LET mp == get_merkle_path(W, [position |-> position])
           IN /\ mp.ok
              /\ IsSome(root)
              /\ PathRoot(commitment_tree.leaves[position + 1], mp.position,
                          mp.auth_path) = Unwrap(root)

\* Three leaves, the last one appended after a checkpoint, so that the root of
\* the checkpoint is not the current root.
C3_Witness ==
    /\ Len(commitment_tree.leaves) >= 3
    /\ IsSome(TreeRoot(commitment_tree, 1))
    /\ TreeRoot(commitment_tree, 1) # TreeRoot(commitment_tree, 0)

\* C4: for every note the NoteManager holds, the path that get_witness_path
\* returns for the note's commitment folds, from that commitment at the note's
\* own position, to the anchor that get_anchor returns.
C4_WitnessPathAuthenticates ==
    \A cmx \in DOMAIN nm_notes :
        LET p == NoteManager_get_witness_path(NM, cmx)
        IN p.ok => PathRoot(cmx, p.position, p.auth_path)
                     = Unwrap(NoteManager_get_anchor(NM))

\* C5: under serialized ingestion every note stored by the decrypt pass of a
\* bundle carries the position that the append pass gave to the commitment of
\* the note's own action, also when two actions of the bundle have the same
\* commitment bytes.
C5_NotePositionIsOwnAppend ==
    \A bundle \in Bundles, tx_hash \in TxHashes, ledger_seq \in ScanLedgerSeqs :
        LET a == AppendAll(W, bundle, 1, <<>>)
            r == try_decrypt_notes_from_bundle(a.w, bundle, tx_hash, ledger_seq)
        IN (a.ok /\ r.ok) =>
             \A i \in 1..Len(bundle) :
                 IsSome(FirstDecryptingIvk(ivks, bundle[i], 1)) =>
                     /\ <<tx_hash, i - 1>> \in DOMAIN r.w.notes
                     /\ Some(r.w.notes[<<tx_hash, i - 1>>].position) = a.positions[i]

\* C6: when try_decrypt_notes_from_bundle returns, with success or with an
\* error, the staging map cmx_to_position is empty.
C6_StagingEmptyOnReturn ==
    \A bundle \in Bundles, tx_hash \in TxHashes, ledger_seq \in ScanLedgerSeqs :
        try_decrypt_notes_from_bundle(W, bundle, tx_hash, ledger_seq).w.cmx_to_position
            = EmptyMap

\* C7: every note of the registry has a position smaller than the number of
\* commitments appended since the wallet was created or last reset.
C7_PositionBelowAppended ==
    \A id \in DOMAIN notes : notes[id].position < Len(assigned)

\* A note at the position of the latest of at least two appends.
C7_Witness ==
    /\ Len(assigned) >= 2
    /\ \E id \in DOMAIN notes : notes[id].position = Len(assigned) - 1

\* C8: add_note for a commitment without an entry in the staging map fails
\* with the missing-position error and leaves the note registry, the nullifier
\* index and the spent-set as they were.
C8_AddNoteWithoutPositionFails ==
    \A cmx \in CmxBytes \ DOMAIN cmx_to_position, nullifier \in Nullifiers,
       tx_hash \in TxHashes, action_idx \in {0, 1}, ivk_index \in {0} :
        LET r == add_note(W, [value |-> NoteValue(cmx), recipient |-> Recipient(cmx)],
                          cmx, nullifier, tx_hash, action_idx, 0,
                          RootOf(commitment_tree.leaves), ivk_index)
        IN /\ ~r.ok
           /\ r.err = "PositionNotFound"
           /\ r.w.notes = notes
           /\ r.w.nullifiers = nullifiers
           /\ r.w.spent_notes = spent_notes

\* A wallet with a note, a spent note and a staged commitment, in which a
\* decrypt pass meets an action whose commitment is not staged.
C8_Witness ==
    /\ DOMAIN notes # {}
    /\ spent_notes # {}
    /\ cmx_to_position # EmptyMap
    /\ \E bundle \in Bundles, tx_hash \in TxHashes :
           LET r == try_decrypt_notes_from_bundle(W, bundle, tx_hash, 0)
           IN ~r.ok /\ r.err = "PositionNotFound"

\* C9: after reset the wallet equals a freshly created wallet: the viewing-key
\* registry, the notes, the nullifier index, the spent-set, the accumulator
\* with its checkpoints, the last checkpoint and the staging map are all empty.
C9_ResetEqualsNew ==
    reset(W) = NewWallet

\* C10: the index of a registered viewing key stays what it was when the key
\* was added, whatever keys are added or removed later: the owning-key index
\* recorded on a note still designates the key that decrypted the note, as long
\* as that key is registered.
C10_KeyIndexStable ==
    \A id \in DOMAIN notes :
        IsSome(IndexOf(ivks, notes[id].note.recipient)) =>
            IndexOf(ivks, notes[id].note.recipient) = Some(notes[id].ivk_index)

\* Owner filters given to select_notes: none, or the key of a full viewing key.
FvkOptions == {None} \cup {Some(k) : k \in Keys}

\* The identity of a stored note.
NoteIdOf(note) == <<note.tx_hash, note.action_idx>>

\* The notes select may return for an owner filter: the unspent notes and,
\* with a filter, those decrypted by the key of the filter.
Eligible(fvk) ==
    {id \in DOMAIN notes \ spent_notes :
        IsSome(fvk) => notes[id].note.recipient = Unwrap(fvk)}

\* The exact sum of the amounts of a set of stored notes.
RECURSIVE SumOfIds(_)
SumOfIds(ids) ==
    IF ids = {} THEN 0
    ELSE LET id == CHOOSE x \in ids : TRUE
         IN notes[id].amount + SumOfIds(ids \ {id})

\* C11: select_notes returns only unspent notes and, when an owner filter is
\* given, only notes that were decrypted by that viewing key; it fails when the
\* key of the filter is not registered.
C11_SelectOnlyEligible ==
    \A target_amount \in SendAmounts, fvk \in FvkOptions :
        LET r == select_notes(W, target_amount, fvk)
        IN /\ r.ok =>
                \A i \in 1..Len(r.selected) :
                    /\ NoteIdOf(r.selected[i]) \notin spent_notes
                    /\ IsSome(fvk) => r.selected[i].note.recipient = Unwrap(fvk)
           /\ (IsSome(fvk) /\ ~IsSome(IndexOf(ivks, Unwrap(fvk)))) =>
                (~r.ok /\ r.err = "FvkNotFound")

\* C12: a successful select_notes returns eligible unspent notes in ascending
\* order of amount, as the shortest prefix of that order whose sum reaches the
\* target: the sum of the result is at least the target and the sum without its
\* last note is below the target.
C12_SelectShortestPrefix ==
    \A target_amount \in SendAmounts :
        LET r == select_notes(W, target_amount, None)
            n == Len(r.selected)
            ids == {NoteIdOf(r.selected[i]) : i \in 1..n}
        IN r.ok =>
             /\ ids \subseteq Eligible(None)
             /\ Cardinality(ids) = n
             /\ \A i \in 1..n : r.selected[i] = notes[NoteIdOf(r.selected[i])]
             /\ \A i \in 1..(n - 1) : r.selected[i].amount <= r.selected[i + 1].amount
             /\ \A id \in Eligible(None) \ ids :
                    \A i \in 1..n : r.selected[i].amount <= notes[id].amount
             /\ SumAmounts(r.selected) >= target_amount
             /\ SumAmounts(SubSeq(r.selected, 1, n - 1)) < target_amount

\* C13: select_notes fails with the insufficient-balance error if the sum of
\* the amounts of the full eligible set is below the target, and succeeds
\* whenever that sum is at least the target, for every target including 0 and
\* every wallet state including one with no eligible notes.
C13_SelectFailsIffInsufficient ==
    \A target_amount \in SendAmounts :
        LET r == select_notes(W, target_amount, None)
            available == SumOfIds(Eligible(None))
        IN /\ available < target_amount => (~r.ok /\ r.err = "InsufficientBalance")
           /\ available >= target_amount => r.ok

\* C14 as stated: in select_notes, notes of equal amount are returned in the
\* order in which they were inserted into the note registry; a note that a
\* decrypt pass adds is never returned before a note of the same amount that
\* the registry held before the pass.
C14_TiesInInsertionOrder ==
    \A bundle \in Bundles, tx_hash \in TxHashes, target_amount \in SendAmounts :
        LET r == try_decrypt_notes_from_bundle(W, bundle, tx_hash, 0)
            sel == select_notes(r.w, target_amount, None)
        IN (r.ok /\ sel.ok) =>
             \A i, j \in 1..Len(sel.selected) :
                 (/\ i < j
                  /\ sel.selected[i].amount = sel.selected[j].amount
                  /\ NoteIdOf(sel.selected[j]) \in DOMAIN notes)
                 => NoteIdOf(sel.selected[i]) \in DOMAIN notes

\* C14 amended: in select_notes, notes of equal amount are returned in
\* ascending order of their identity (tx_hash, action_idx), the key order of
\* the note registry, whatever the order in which they were inserted.
C14_TiesInIdentityOrder ==
    \A target_amount \in SendAmounts :
        LET sel == select_notes(W, target_amount, None)
        IN sel.ok =>
             \A i, j \in 1..Len(sel.selected) :
                 (i < j /\ sel.selected[i].amount = sel.selected[j].amount)
                 => NoteIdLess(NoteIdOf(sel.selected[i]), NoteIdOf(sel.selected[j]))

\* A selection of two notes of equal amount in which the note returned first
\* has the later position, so it was inserted after the other one.
C14_Witness ==
    \E target_amount \in SendAmounts :
        LET sel == select_notes(W, target_amount, None)
        IN /\ sel.ok
           /\ Len(sel.selected) >= 2
           /\ sel.selected[1].amount = sel.selected[2].amount
           /\ sel.selected[1].position > sel.selected[2].position

\* C15: select_notes is deterministic: for one logical state (notes, spent-set)
\* and one amount there is one possible ordered result, whatever the history
\* that built the state.
C15_SelectDeterministic ==
    \A amount_needed \in SendAmounts :
        Cardinality(NoteManager_select_notes(NM, amount_needed)) = 1

\* C16: mark_spent is idempotent: for every wallet state and nullifier, applying
\* mark_spent twice gives the same spent set, balance and note list (with and
\* without the spent notes) as applying it once.
C16_MarkSpentIdempotent ==
    \A nullifier \in Nullifiers :
        LET once == mark_spent(W, nullifier)
            twice == mark_spent(once, nullifier)
        IN /\ twice.spent_notes = once.spent_notes
           /\ get_balance(twice) = get_balance(once)
           /\ list_notes(twice, TRUE) = list_notes(once, TRUE)
           /\ list_notes(twice, FALSE) = list_notes(once, FALSE)

\* A nullifier of the index whose note is unspent and has been marked spent
\* by the first application.
C16_Witness ==
    \E nullifier \in DOMAIN nullifiers :
        /\ nullifiers[nullifier] \notin spent_notes
        /\ nullifiers[nullifier] \in mark_spent(W, nullifier).spent_notes
        /\ get_balance(mark_spent(W, nullifier)) # get_balance(W)

\* C17: mark_spent with a nullifier that is not in the nullifier index leaves
\* the whole wallet state unchanged (the operation has no error to report).
C17_UnknownNullifierNoOp ==
    \A nullifier \in Nullifiers \ DOMAIN nullifiers :
        mark_spent(W, nullifier) = W

\* A wallet holding an unspent note, and a nullifier the index does not know.
C17_Witness ==
    /\ DOMAIN notes \ spent_notes # {}
    /\ DOMAIN nullifiers # {}
    /\ Nullifiers \ DOMAIN nullifiers # {}

\* C18: every step other than reset leaves each spent note identity in the
\* spent set, also a decrypt pass that inserts a spent identity again.
C18_SpentSetOnlyGrows ==
    [][Reset \/ spent_notes \subseteq spent_notes']_vars

\* A spent note identity that a replayed bundle inserts again, with a record
\* different from the one the registry holds.
C18_Witness ==
    \E bundle \in Bundles, tx_hash \in TxHashes, ledger_seq \in ScanLedgerSeqs :
        LET r == try_decrypt_notes_from_bundle(W, bundle, tx_hash, ledger_seq)
        IN /\ r.ok
           /\ Weight(r.w) <= MaxWeight
           /\ \E note_id \in spent_notes :
                /\ note_id \in DOMAIN notes
                /\ r.w.notes[note_id] # notes[note_id]
                /\ note_id \in r.w.spent_notes

\* C19: in every reachable state get_balance is the sum of the amounts of the
\* notes that are in the registry and not in the spent set, and marking the
\* nullifier of an unspent note lowers the balance by exactly that note's
\* amount.
C19_BalanceIsUnspentSum ==
    LET unspent == DOMAIN notes \ spent_notes
    IN /\ get_balance(W) = {[panic |-> FALSE, value |-> SumOfIds(unspent)]}
       /\ \A note_id \in unspent :
            get_balance(mark_spent(W, notes[note_id].nullifier))
                = {[panic |-> FALSE,
                    value |-> SumOfIds(unspent) - notes[note_id].amount]}

C21_CountIsRegistryGrowth ==
    \A bundle \in Bundles, tx_hash \in TxHashes, ledger_seq \in ScanLedgerSeqs :
        LET r == try_decrypt_notes_from_bundle(W, bundle, tx_hash, ledger_seq)
        IN r.ok => r.count = Cardinality(DOMAIN r.w.notes) - Cardinality(DOMAIN notes)

\* s is a prefix of t.
IsPrefix(s, t) == Len(s) <= Len(t) /\ SubSeq(t, 1, Len(s)) = s

\* The first action of the bundle that a registered key decrypts and whose
\* commitment has no staged position: where the pass fails (0 if nowhere).
FailingAction(bundle) ==
    LET failing == {i \in 1..Len(bundle) :
                       /\ IsSome(FirstDecryptingIvk(ivks, bundle[i], 1))
                       /\ bundle[i].cmx \notin DOMAIN cmx_to_position}
    IN IF failing = {} THEN 0
       ELSE CHOOSE i \in failing : \A j \in failing : i <= j

\* C22: an append that succeeds puts the commitment at the end of the
\* accumulator whatever keys are registered, and no operation other than
\* reset removes or moves an appended commitment: not a decrypt pass in
\* which no key decrypts it, and not a pass that fails part-way, which also
\* keeps the notes it stored before the failure.
C22_AppendNeverUndone ==
    /\ \A cmx \in CmxBytes :
         LET r == append_commitment(W, cmx)
         IN /\ r.ok = (IsSome(FromBytes(cmx)) /\ Len(commitment_tree.leaves) < Capacity)
            /\ r.w.commitment_tree.leaves
                 = IF r.ok THEN Append(commitment_tree.leaves, cmx)
                   ELSE commitment_tree.leaves
    /\ \A bundle \in Bundles, tx_hash \in TxHashes, ledger_seq \in ScanLedgerSeqs :
         LET r == try_decrypt_notes_from_bundle(W, bundle, tx_hash, ledger_seq)
             f == FailingAction(bundle)
         IN /\ r.w.commitment_tree = commitment_tree
            /\ r.ok = (f = 0)
            /\ ~r.ok =>
                 /\ DOMAIN notes \subseteq DOMAIN r.w.notes
                 /\ \A i \in 1..(f - 1) :
                      IsSome(FirstDecryptingIvk(ivks, bundle[i], 1)) =>
                        /\ <<tx_hash, i - 1>> \in DOMAIN r.w.notes
                        /\ r.w.notes[<<tx_hash, i - 1>>].cmx = bundle[i].cmx
                        /\ r.w.notes[<<tx_hash, i - 1>>].position
                             = cmx_to_position[bundle[i].cmx]
    /\ \A k \in Keys :
         /\ add_ivk(W, k).commitment_tree = commitment_tree
         /\ remove_ivk(W, k).commitment_tree = commitment_tree
    /\ \A nullifier \in Nullifiers :
         mark_spent(W, nullifier).commitment_tree = commitment_tree
    /\ \A ledger_seq \in LedgerSeqs :
         IsPrefix(commitment_tree.leaves, checkpoint(W, ledger_seq).w.commitment_tree.leaves)
         /\ Len(checkpoint(W, ledger_seq).w.commitment_tree.leaves) = Len(commitment_tree.leaves)

\* An appended commitment that was staged no longer and has no note, and a
\* pass that stores a new note and then fails at a later action.
C22_Witness ==
    /\ \E i \in 1..Len(commitment_tree.leaves) :
         /\ commitment_tree.leaves[i] \notin DOMAIN cmx_to_position
         /\ \A id \in DOMAIN notes : notes[id].position # i - 1
    /\ \E bundle \in Bundles, tx_hash \in TxHashes, ledger_seq \in ScanLedgerSeqs :
         LET r == try_decrypt_notes_from_bundle(W, bundle, tx_hash, ledger_seq)
         IN /\ ~r.ok
            /\ DOMAIN r.w.notes # DOMAIN notes
            /\ Weight(r.w) <= MaxWeight

\* C23: in every reachable state each note record is stored under its own
\* identity (tx_hash, action_idx), so the registry lists no two records of
\* one identity, also after an identity was inserted again.  (The nullifier
\* index is a map: it holds one note identity for each of its nullifiers.)
C23_OneRecordPerIdentity ==
    LET all == list_notes(W, TRUE)
    IN /\ \A id \in DOMAIN notes : NoteIdOf(notes[id]) = id
       /\ Len(all) = Cardinality(DOMAIN notes)
       /\ \A i, j \in 1..Len(all) : i # j => NoteIdOf(all[i]) # NoteIdOf(all[j])

\* Two notes in the registry, one of them inserted a second time under
\* another nullifier.
C23_Witness ==
    /\ Cardinality(DOMAIN notes) = 2
    /\ \E n1, n2 \in DOMAIN nullifiers : n1 # n2 /\ nullifiers[n1] = nullifiers[n2]

\* C24: the viewing-key registry never holds a key twice; add_ivk of a
\* registered key changes nothing and add_ivk of a new key puts it last, so
\* list_ivks is in insertion order; remove_ivk deletes the key equal to its
\* argument, keeps the order of the others, and changes nothing when the key
\* is absent.
C24_IvkRegistry ==
    /\ \A i, j \in 1..Len(ivks) : i # j => ivks[i] # ivks[j]
    /\ list_ivks(W) = ivks
    /\ \A k \in Keys :
         /\ add_ivk(W, k) = IF \E i \in 1..Len(ivks) : ivks[i] = k THEN W
                            ELSE [W EXCEPT !.ivks = ivks \o <<k>>]
         /\ remove_ivk(W, k)
              = [W EXCEPT !.ivks = SelectSeq(ivks, LAMBDA x : x # k)]
         /\ (\A i \in 1..Len(ivks) : ivks[i] # k) => remove_ivk(W, k) = W
         /\ add_ivk(add_ivk(W, k), k) = add_ivk(W, k)

\* Two keys registered, the one with the greater value first.
C24_Witness ==
    /\ Len(ivks) = 2
    /\ ivks[1] > ivks[2]

\* C25: on an empty wallet (new or just reset, no commitment appended) the
\* balance is 0, the list of unspent notes is empty, and get_anchor, and the
\* building of a spend with its anchor and witnesses, fail.
C25_EmptyWalletHasNoAnchor ==
    commitment_tree.leaves = <<>> =>
        /\ get_balance(W) = {[panic |-> FALSE, value |-> 0]}
        /\ list_notes(W, FALSE) = <<>>
        /\ ~IsSome(get_anchor(W))
        /\ \A send_amount \in SendAmounts :
             ~build_shielded_to_shielded_from_wallet(W, send_amount).ok

\* C26: a failure of a wallet operation is reported to the caller of the
\* exposed operation: a checkpoint the accumulator rejects makes the exposed
\* checkpoint fail, and an append that recorded no position makes the exposed
\* append fail.
C26_FailuresReported ==
    /\ \A ledger_seq \in LedgerSeqs :
         ~checkpoint(W, ledger_seq).ok
            => ~orchard_wallet_state_checkpoint(W, ledger_seq).ok
    /\ \A cmx \in CmxBytes :
         LET r == append_commitment(W, cmx)
         IN (~r.ok \/ ~IsSome(r.position))
               => ~orchard_wallet_state_append_commitment(W, cmx).ok

EmptyRoot(level) == Node(<<>>, level, 0)

\* The node at (level, index) of a tree of `size` leaves covers no leaf.
NoSiblingYet(size, position, level) ==
    SiblingIndex(position, level) * Pow2(level) >= size

\* C28: every witness path returned for a stored note has DEPTH elements,
\* whatever the number of leaves, and at each level where the note's position
\* has no sibling yet the element is the hash of the empty subtree of that
\* level.
C28_WitnessShape ==
    \A cmx \in DOMAIN nm_notes :
        LET p == NoteManager_get_witness_path(NM, cmx)
        IN p.ok =>
            /\ Len(p.auth_path) = DEPTH
            /\ \A l \in 1..DEPTH :
                 NoSiblingYet(Len(nm_tree), p.position, l - 1)
                    => p.auth_path[l] = EmptyRoot(l - 1)

\* The sequence s with the elements at i and j exchanged.
Swap(s, i, j) ==
    [k \in 1..Len(s) |-> IF k = i THEN s[j] ELSE IF k = j THEN s[i] ELSE s[k]]

\* C29: get_anchor is the root of the tree over the commitments appended so
\* far, in their order: an append changes it to the root with the commitment
\* added at the end, no checkpoint, decrypt pass, mark_spent or key change
\* changes it, and exchanging two different commitments of the sequence gives
\* another root.
C29_RootIsFunctionOfAppends ==
    LET leaves == commitment_tree.leaves
        anchor == get_anchor(W)
        root == RootOf(leaves)
    IN /\ anchor = Some(root)
       /\ \A cmx \in CmxBytes :
            LET r == append_commitment(W, cmx)
            IN get_anchor(r.w)
                 = IF r.ok THEN Some(RootOf(Append(leaves, cmx))) ELSE anchor
       /\ \A k \in Keys :
            /\ get_anchor(add_ivk(W, k)) = anchor
            /\ get_anchor(remove_ivk(W, k)) = anchor
       /\ \A nullifier \in Nullifiers :
            get_anchor(mark_spent(W, nullifier)) = anchor
       /\ \A ledger_seq \in LedgerSeqs :
            get_anchor(checkpoint(W, ledger_seq).w) = anchor
       /\ \A bundle \in Bundles, tx_hash \in TxHashes, ledger_seq \in ScanLedgerSeqs :
            get_anchor(try_decrypt_notes_from_bundle(W, bundle, tx_hash, ledger_seq).w)
               = anchor
       /\ \A i, j \in 1..Len(leaves) :
            (i < j /\ leaves[i] # leaves[j]) => RootOf(Swap(leaves, i, j)) # root

\* Two different commitments appended, a note stored, and a checkpoint taken
\* before the last append.
C29_Witness ==
    /\ Len(commitment_tree.leaves) >= 2
    /\ commitment_tree.leaves[1] # commitment_tree.leaves[2]
    /\ notes # EmptyMap
    /\ IsSome(TreeRoot(commitment_tree, 1))
    /\ TreeRoot(commitment_tree, 1) # TreeRoot(commitment_tree, 0)

RECURSIVE SumOfCmx(_)
SumOfCmx(cs) ==
    IF cs = {} THEN 0
    ELSE LET c == CHOOSE x \in cs : TRUE
         IN nm_notes[c].amount + SumOfCmx(cs \ {c})

\* C31: in the NoteManager, after any sequence of add_note and mark_spent
\* calls, note_count is the number of unspent notes and get_balance the sum of
\* their amounts (both 0 after the only note was marked spent), without
\* underflow.
C31_NoteCountAndBalance ==
    LET unspent == DOMAIN nm_notes \ nm_spent_notes
    IN /\ NoteManager_note_count(NM) = {[panic |-> FALSE, value |-> Cardinality(unspent)]}
       /\ NoteManager_get_balance(NM) = {[panic |-> FALSE, value |-> SumOfCmx(unspent)]}

\* C32: NoteManager::add_note with valid commitment bytes succeeds in every
\* state whose tree has free capacity, also on a new manager with an empty
\* tree, and raises get_balance by the note's amount and note_count by one.
C32_AddNoteSucceeds ==
    \A cmx \in ValidCmx, value \in NoteValues, nullifier \in Nullifiers,
       tx_hash \in TxHashes, ledger_seq \in ScanLedgerSeqs :
        Len(nm_tree) < Capacity =>
            \A r \in NoteManager_add_note(NM, [value |-> value, recipient |-> Recipient(cmx)],
                                          cmx, nullifier, ledger_seq, tx_hash) :
                /\ r.ok
                /\ \A b \in NoteManager_get_balance(NM), c \in NoteManager_note_count(NM) :
                     /\ NoteManager_get_balance(r.nm)
                          = {[panic |-> FALSE, value |-> b.value + value]}
                     /\ NoteManager_note_count(r.nm)
                          = {[panic |-> FALSE, value |-> c.value + 1]}

\* The set of the elements of a sequence.
Range(s) == {s[i] : i \in 1..Len(s)}

\* C33: list_notes(false) returns exactly the registry notes whose identity is
\* not in the spent set, list_notes(true) every registry note, each once, so
\* the number of notes listed with the spent ones is the number of unspent
\* notes plus the size of the spent set.
C33_ListNotes ==
    LET unspent == list_notes(W, FALSE)
        all == list_notes(W, TRUE)
    IN /\ Range(unspent) = {notes[id] : id \in DOMAIN notes \ spent_notes}
       /\ Len(unspent) = Cardinality(DOMAIN notes \ spent_notes)
       /\ Range(all) = {notes[id] : id \in DOMAIN notes}
       /\ Len(all) = Cardinality(DOMAIN notes)
       /\ Len(all) = Len(unspent) + Cardinality(spent_notes)

\* A registry with a spent note and an unspent one.
C33_Witness ==
    /\ spent_notes # {}
    /\ DOMAIN notes \ spent_notes # {}
    /\ Len(list_notes(W, TRUE)) = 2

\* C34: when the append pass of a bundle B runs between the append pass and
\* the decrypt pass of a bundle A, every note of A is stored with the position
\* its own append was given, and the decrypt pass of B, run after that of A
\* has cleared the staging map, stores no note: it fails with the
\* missing-position error when a key decrypts one of its actions.
C34_InterleavedAppendPass ==
    \A A \in Bundles, B \in Bundles, tx_a \in TxHashes, tx_b \in TxHashes,
       ledger_seq \in ScanLedgerSeqs :
        LET a == AppendAll(W, A, 1, <<>>)
            b == AppendAll(a.w, B, 1, <<>>)
            dA == try_decrypt_notes_from_bundle(b.w, A, tx_a, ledger_seq)
            dB == try_decrypt_notes_from_bundle(dA.w, B, tx_b, ledger_seq)
        IN (a.ok /\ b.ok) =>
             /\ dA.ok
             /\ \A i \in 1..Len(A) :
                  IsSome(FirstDecryptingIvk(ivks, A[i], 1)) =>
                     /\ <<tx_a, i - 1>> \in DOMAIN dA.w.notes
                     /\ Some(dA.w.notes[<<tx_a, i - 1>>].position) = a.positions[i]
             /\ dB.w.notes = dA.w.notes
             /\ (\E i \in 1..Len(B) : IsSome(FirstDecryptingIvk(ivks, B[i], 1)))
                   => (~dB.ok /\ dB.err = "PositionNotFound")

\* C35: in every reachable state the nullifier index maps the nullifier of
\* every note of the registry to that note's own identity, so that mark_spent
\* of a note's nullifier marks exactly that note spent -- also after an
\* identity was inserted again with another nullifier, and when two notes of
\* different identities carry one nullifier.
C35_NullifierIndexOwnIdentity ==
    \A id \in DOMAIN notes :
        /\ notes[id].nullifier \in DOMAIN nullifiers
        /\ nullifiers[notes[id].nullifier] = id
        /\ mark_spent(W, notes[id].nullifier).spent_notes = spent_notes \cup {id}

\* C36: in every reachable state every identity of the spent set and every
\* identity the nullifier index holds as a value is the identity of a note of
\* the registry.
C36_ReferentialIntegrity ==
    /\ spent_notes \subseteq DOMAIN notes
    /\ \A n \in DOMAIN nullifiers : nullifiers[n] \in DOMAIN notes

\* A spent note that the index still reaches under a nullifier it no longer
\* carries.
C36_Witness ==
    \E n \in DOMAIN nullifiers :
        /\ nullifiers[n] \in spent_notes
        /\ nullifiers[n] \in DOMAIN notes
        /\ notes[nullifiers[n]].nullifier # n

\* C37: sums of amounts never wrap: a successful select_notes returns notes
\* whose true sum is within the amount range and reaches the target (beyond
\* the range it fails with the amount-overflow error), and get_balance returns
\* the true sum of the unspent amounts for every set of unspent notes.
C37_SumsNeverWrap ==
    /\ \A target_amount \in SendAmounts, fvk \in FvkOptions :
         LET r == select_notes(W, target_amount, fvk)
         IN /\ r.ok => (/\ SumAmounts(r.selected) <= AmountMax
                        /\ SumAmounts(r.selected) >= target_amount)
            /\ (~r.ok /\ SumOfIds(DOMAIN notes \ spent_notes) <= AmountMax)
                  => r.err # "AmountOverflow"
    /\ get_balance(W)
         = {[panic |-> FALSE, value |-> SumOfIds(DOMAIN notes \ spent_notes)]}

\* C38: mark_spent changes nothing but the spent set: for every nullifier the
\* note registry, nullifier index, viewing-key registry, accumulator (leaves,
\* marks, checkpoints and so the root), last checkpoint and staging map are
\* the same after the call as before it.
C38_MarkSpentTouchesOnlySpentSet ==
    \A nullifier \in Nullifiers :
        LET after == mark_spent(W, nullifier)
        IN /\ after.notes = notes
           /\ after.nullifiers = nullifiers
           /\ after.ivks = ivks
           /\ after.commitment_tree = commitment_tree
           /\ get_anchor(after) = get_anchor(W)
           /\ after.last_checkpoint = last_checkpoint
           /\ after.cmx_to_position = cmx_to_position

\* A checkpointed wallet with a staged commitment, where mark_spent of an
\* indexed nullifier adds an identity to the spent set.
C38_Witness ==
    /\ IsSome(last_checkpoint)
    /\ DOMAIN cmx_to_position # {}
    /\ \E nullifier \in DOMAIN nullifiers :
           mark_spent(W, nullifier).spent_notes # spent_notes

\* C39: last_checkpoint is none on a fresh or reset wallet and otherwise is
\* the ledger sequence of the most recent checkpoint the accumulator accepted
\* (an accepted call sets it, a rejected call leaves it unchanged), and the
\* value reported through the FFI distinguishes "no checkpoint yet" from a
\* checkpoint at ledger sequence 0.
C39_LastCheckpoint ==
    /\ NewWallet.last_checkpoint = None
    /\ reset(W).last_checkpoint = None
    /\ IF commitment_tree.checkpoints = <<>>
       THEN last_checkpoint = None
       ELSE last_checkpoint =
              Some(commitment_tree.checkpoints[Len(commitment_tree.checkpoints)].id)
    /\ \A ledger_seq \in LedgerSeqs :
         LET r == checkpoint(W, ledger_seq)
         IN IF r.ok
            THEN r.w.last_checkpoint = Some(ledger_seq)
            ELSE r.w.last_checkpoint = last_checkpoint
    /\ last_checkpoint = Some(0)
         => orchard_wallet_state_last_checkpoint(W)
              # orchard_wallet_state_last_checkpoint(NewWallet)

====
